---- MODULE Spec2Model ----
(***************************************************************************)
(* NeoPatterns.h: the pattern stepping machine (NeoPattern), the strip     *)
(* controller (NeoPatterns) and the pattern variants, as a state machine.  *)
(* One action per public operation; each action is the whole handler.      *)
(***************************************************************************)
EXTENDS Integers, Sequences, FiniteSets

\* ---------------------------------------------------------------- bounds
\* Longest strip: numPixels is drawn from 1..MaxPixels.
MaxPixels == 2
\* Largest step count handed to the Fade constructor.
MaxSteps == 3
\* Largest interval handed to a constructor.
MaxInterval == 1
\* millis_t is an unsigned integer type: millis() and every difference of
\* two timestamps is taken modulo its range, scaled down here to MillisMod.
MillisMod == 4

\* ------------------------------------------------------- program constants
FORWARD == 1
REVERSE == -1
\* uint16_t Index, TotalSteps: arithmetic on them is modulo 2^16.
Uint16Mod == 65536
\* RainbowCycle's step count.
RainbowSteps == 255
\* Pulsar's step count.
PulsarSteps == 2

\* The null pointer; pattern objects have the ids 1, 2, ...
NULL == 0

\* ------------------------------------------------------------ colour utils
\* Adafruit_NeoPixel::Color(r, g, b): packed 0xRRGGBB.
Color(r, g, b) == (r * 65536) + (g * 256) + b

Red(color) == (color \div 65536) % 256

Green(color) == (color \div 256) % 256

Blue(color) == color % 256

DimColor(color) == Color(Red(color) \div 2, Green(color) \div 2, Blue(color) \div 2)

\* Mutant: the position is not turned round first.
WheelNoFlip(WheelPos) ==
    LET w == WheelPos % 256
    IN  IF w < 85
        THEN Color((255 - w * 3) % 256, 0, (w * 3) % 256)
        ELSE IF w < 170
             THEN Color(0, ((w - 85) * 3) % 256, (255 - (w - 85) * 3) % 256)
             ELSE Color(((w - 170) * 3) % 256, (255 - (w - 170) * 3) % 256, 0)

\* byte WheelPos: every assignment to it is modulo 256, the arguments of
\* Color are uint8_t.
Wheel(WheelPos) ==
    LET w == (255 - WheelPos) % 256
    IN  IF w < 85
        THEN Color((255 - w * 3) % 256, 0, (w * 3) % 256)
        ELSE IF w < 170
             THEN Color(0, ((w - 85) * 3) % 256, (255 - (w - 85) * 3) % 256)
             ELSE Color(((w - 170) * 3) % 256, (255 - (w - 170) * 3) % 256, 0)

\* The colours handed to the constructors.
ColorOne == Color(4, 0, 2)

ColorTwo == Color(0, 2, 1)

\* ------------------------------------------------------------------ state
VARIABLES
    now,            \* the value millis() returns
    numPixels,      \* the strip's length, fixed at construction
    pixels,         \* the pixel buffer, pixels[i + 1] is pixel i
    ActivePattern,  \* NULL or the id of the running pattern
    pat,            \* pat[p]: the fields of pattern object p
    log,            \* the last operation: its call, then the calls it made, in order
    elapsed,        \* elapsed[p]: milliseconds since p's LastUpdate = millis(), counted
                    \* without wrap-around up to MillisMod; -1 after Reset()
    run             \* the run begun by the last Start(p), when the program records it:
                    \* p, the buffer and p's Direction at that call, and the applied
                    \* updates and OnComplete calls of p since then

vars == <<now, numPixels, pixels, ActivePattern, pat, log, elapsed, run>>

\* The pattern objects of the program.
PatternIds == DOMAIN pat

\* One entry of log: a call, the pattern object it is made on or for, and the
\* index, buffer or timestamp it is made with.
Event(ev, p, idx, buf, t) == [ev |-> ev, p |-> p, idx |-> idx, buf |-> buf, t |-> t]

Call(ev, p) == Event(ev, p, 0, <<>>, 0)

\* The program is running: it has not been stopped by a hardware trap.
Running == IF Len(log) = 0 THEN TRUE ELSE log[Len(log)].ev # "trap"

\* ------------------------------------------------------- NeoPattern (base)
Reset(r) == [r EXCEPT !.Index = 0, !.LastUpdate = 0]

\* NeoPattern::NeoPattern: stores the parameters, then Reset().
NeoPattern(kind, interval, color1, color2, totalSteps, dir) ==
    Reset([kind |-> kind, Interval |-> interval, Color1 |-> color1, Color2 |-> color2,
           TotalSteps |-> totalSteps % Uint16Mod, Direction |-> dir,
           Index |-> 0, LastUpdate |-> 0, hook |-> "none"])

\* Mutant: the difference is taken in signed arithmetic, without wrap-around.
ShouldUpdateSigned(r, t) == (t - r.LastUpdate) > r.Interval

\* Mutant: the gate opens as soon as the interval is reached.
ShouldUpdateInclusive(r, t) == ((t - r.LastUpdate) % MillisMod) >= r.Interval

\* Mutant: an interval of 0 opens the gate unconditionally.
ShouldUpdateZeroAlways(r, t) ==
    r.Interval = 0 \/ ((t - r.LastUpdate) % MillisMod) > r.Interval

\* millis() - LastUpdate > Interval, in millis_t arithmetic.
ShouldUpdate(r, t) == ((t - r.LastUpdate) % MillisMod) > r.Interval

\* Mutant: the two boundaries are swapped.
ReverseSwappedBoundary(r) ==
    LET d == r.Direction * (-1)
    IN  [r EXCEPT !.Direction = d,
                  !.Index = IF d = FORWARD THEN (r.TotalSteps - 1) % Uint16Mod ELSE 0]

\* Mutant: the reverse boundary is one past the last step.
ReverseOffEnd(r) ==
    LET d == r.Direction * (-1)
    IN  [r EXCEPT !.Direction = d,
                  !.Index = IF d = FORWARD THEN 0 ELSE r.TotalSteps % Uint16Mod]

Reverse(r) ==
    LET d == r.Direction * (-1)
    IN  [r EXCEPT !.Direction = d,
                  !.Index = IF d = FORWARD THEN 0 ELSE (r.TotalSteps - 1) % Uint16Mod]

\* The completion callback is virtual: the default does nothing, and a
\* subclass may override it; hook = "reverse" is a subclass whose override
\* calls Reverse() on the pattern itself.
OnComplete(r) == IF r.hook = "reverse" THEN Reverse(r) ELSE r

\* Index += Direction in uint16_t, then the two wrap tests.
IncrementRaw(r) == (r.Index + r.Direction) % Uint16Mod

IncrementWraps(r) == IncrementRaw(r) >= r.TotalSteps \/ IncrementRaw(r) <= 0

\* Mutant: the reverse wrap is tested with < instead of <=.
IncrementStrictZero(r) ==
    LET raw == IncrementRaw(r)
    IN  IF raw >= r.TotalSteps
        THEN OnComplete([r EXCEPT !.Index = 0])
        ELSE IF raw < 0
             THEN OnComplete([r EXCEPT !.Index = (r.TotalSteps - 1) % Uint16Mod])
             ELSE [r EXCEPT !.Index = raw]

\* Mutant: the forward wrap is tested with == instead of >=.
IncrementEqualityTest(r) ==
    LET raw == IncrementRaw(r)
    IN  IF raw = r.TotalSteps
        THEN OnComplete([r EXCEPT !.Index = 0])
        ELSE IF raw <= 0
             THEN OnComplete([r EXCEPT !.Index = (r.TotalSteps - 1) % Uint16Mod])
             ELSE [r EXCEPT !.Index = raw]

\* Mutant: the forward wrap test is off by one.
IncrementOffByOne(r) ==
    LET raw == IncrementRaw(r)
    IN  IF raw > r.TotalSteps
        THEN OnComplete([r EXCEPT !.Index = 0])
        ELSE IF raw <= 0
             THEN OnComplete([r EXCEPT !.Index = (r.TotalSteps - 1) % Uint16Mod])
             ELSE [r EXCEPT !.Index = raw]

Increment(r) ==
    LET raw == IncrementRaw(r)
    IN  IF raw >= r.TotalSteps
        THEN OnComplete([r EXCEPT !.Index = 0])
        ELSE IF raw <= 0
             THEN OnComplete([r EXCEPT !.Index = (r.TotalSteps - 1) % Uint16Mod])
             ELSE [r EXCEPT !.Index = raw]

\* LastUpdate = millis(); Increment();
AfterUpdate(r, t) == Increment([r EXCEPT !.LastUpdate = t])

\* ------------------------------------------------------- pattern variants
Intervals == 0..MaxInterval

Directions == {FORWARD, REVERSE}

RainbowCycle(n, interval, dir) == NeoPattern("RainbowCycle", interval, 0, 0, RainbowSteps, dir)

TheaterChase(n, interval, color1, color2, dir) ==
    NeoPattern("TheaterChase", interval, color1, color2, n, dir)

ColorWipe(n, interval, color, dir) == NeoPattern("ColorWipe", interval, color, 0, n, dir)

Scanner(n, interval, color, split) ==
    NeoPattern(IF split THEN "ScannerSplit" ELSE "Scanner", interval, color, 0,
               n * (IF split THEN 1 ELSE 2), FORWARD)

Pulsar(n, interval, color1, color2) ==
    NeoPattern("Pulsar", interval, color1, color2, PulsarSteps, FORWARD)

Fade(n, interval, color1, color2, steps, dir) ==
    NeoPattern("Fade", interval, color1, color2, steps, dir)

\* An object of a subclass of r's class that overrides OnComplete to call
\* Reverse().
Reversing(r) == [r EXCEPT !.hook = "reverse"]

\* The pattern objects a program can construct on a strip of n pixels.
Constructed(n, kind) ==
    CASE kind = "RainbowCycle" ->
           {RainbowCycle(n, i, d) : i \in Intervals, d \in Directions}
      [] kind = "TheaterChase" ->
           {TheaterChase(n, i, ColorOne, ColorTwo, d) : i \in Intervals, d \in Directions}
      [] kind = "ColorWipe" ->
           {ColorWipe(n, i, ColorOne, d) : i \in Intervals, d \in Directions}
      [] kind = "Scanner" ->
           {Scanner(n, i, ColorOne, FALSE) : i \in Intervals}
      [] kind = "ScannerSplit" ->
           {Scanner(n, i, ColorOne, TRUE) : i \in Intervals}
      [] kind = "Pulsar" ->
           {Pulsar(n, i, ColorOne, ColorTwo) : i \in Intervals}
      [] kind = "Fade" ->
           UNION {{Fade(n, i, ColorOne, ColorTwo, s, d) : i \in Intervals, d \in Directions} :
                  s \in 1..MaxSteps}

\* ------------------------------------------------------------ pixel buffer
\* Adafruit_NeoPixel::setPixelColor ignores a position outside the strip.
setPixelColor(buf, i, c) ==
    IF i >= 0 /\ i < Len(buf) THEN [buf EXCEPT ![i + 1] = c] ELSE buf

getPixelColor(buf, i) == IF i >= 0 /\ i < Len(buf) THEN buf[i + 1] ELSE 0

\* Adafruit_NeoPixel::clear
clear(buf) == [i \in 1..Len(buf) |-> 0]

\* ColorSet: every pixel := color, then show(). The buffer after it; its
\* show() is entered in the log by FrameShows.
ColorSet(buf, color) == [i \in 1..Len(buf) |-> color]

\* ------------------------------------------------- the variants' Update()
RainbowCycleUpdate(r, buf) ==
    [i \in 1..Len(buf) |->
        Wheel(((((i - 1) * 256) \div Len(buf)) + r.Index) % 256)]

TheaterChaseUpdate(r, buf) ==
    [i \in 1..Len(buf) |-> IF ((i - 1) + r.Index) % 3 = 0 THEN r.Color1 ELSE r.Color2]

\* Mutant: the pixel after the one at Index is painted.
ColorWipeUpdateNext(r, buf) == setPixelColor(buf, r.Index + 1, r.Color1)

ColorWipeUpdate(r, buf) == setPixelColor(buf, r.Index, r.Color1)

ScannerUpdate(r, buf) ==
    [i \in 1..Len(buf) |->
        IF (i - 1) = r.Index \/ (i - 1) = r.TotalSteps - r.Index
        THEN r.Color1
        ELSE DimColor(getPixelColor(buf, i - 1))]

PulsarColor(r) == IF r.Index = 0 THEN r.Color1 ELSE r.Color2

\* The width of int on the build: Fade's arithmetic is done, after the
\* integer promotions, in unsigned int modulo 2^16 where int has 16 bits
\* (uint16_t is unsigned int there), and in int where int has 32 bits, which
\* holds every value the expression can take.
IntWidths == {16, 32}

ToInt(x, intWidth) == IF intWidth = 16 THEN x % Uint16Mod ELSE x

\* The byte a division by zero leaves where the hardware does not trap.
DivZeroBytes == {0, 255}

\* Mutant: the two weights are exchanged.
FadeChannelSwapped(c1, c2, totalSteps, index, intWidth) ==
    (ToInt(ToInt(c1 * index, intWidth)
           + ToInt(c2 * ToInt(totalSteps - index, intWidth), intWidth), intWidth)
       \div totalSteps) % 256

\* One channel of Fade's interpolation, stored in a uint8_t.
FadeChannel(c1, c2, totalSteps, index, intWidth) ==
    (ToInt(ToInt(c1 * ToInt(totalSteps - index, intWidth), intWidth)
           + ToInt(c2 * index, intWidth), intWidth) \div totalSteps) % 256

FadeColor(r, intWidth) ==
    Color(FadeChannel(Red(r.Color1), Red(r.Color2), r.TotalSteps, r.Index, intWidth),
          FadeChannel(Green(r.Color1), Green(r.Color2), r.TotalSteps, r.Index, intWidth),
          FadeChannel(Blue(r.Color1), Blue(r.Color2), r.TotalSteps, r.Index, intWidth))

\* Fade::Update divides by TotalSteps: with TotalSteps = 0 the behaviour is
\* undefined, and the program either traps or goes on with some byte.
FadeDividesByZero(r) == r.kind = "Fade" /\ r.TotalSteps = 0

\* The colours Fade::Update can hand to ColorSet.
FadeColors(r) ==
    IF r.TotalSteps = 0
    THEN {Color(q, q, q) : q \in DivZeroBytes}
    ELSE {FadeColor(r, w) : w \in IntWidths}

\* The buffers pattern r's Update() can leave.
Frames(r, buf) ==
    CASE r.kind = "RainbowCycle" -> {RainbowCycleUpdate(r, buf)}
      [] r.kind = "TheaterChase" -> {TheaterChaseUpdate(r, buf)}
      [] r.kind = "ColorWipe" -> {ColorWipeUpdate(r, buf)}
      [] r.kind \in {"Scanner", "ScannerSplit"} -> {ScannerUpdate(r, buf)}
      [] r.kind = "Pulsar" -> {ColorSet(buf, PulsarColor(r))}
      [] r.kind = "Fade" -> {ColorSet(buf, c) : c \in FadeColors(r)}

\* The show() calls pattern r's Update() makes itself (through ColorSet)
\* when it leaves the buffer f.
FrameShows(p, r, f) ==
    IF r.kind \in {"Pulsar", "Fade"} THEN <<Event("show", p, 0, f, 0)>> ELSE <<>>

\* ------------------------------------------------------------- controller
IsActive == ActivePattern # NULL

IsActivePattern(p) == ActivePattern = p

\* The calls Increment makes on pattern p with fields r.
IncrementLog(p, r) ==
    <<Event("advance", p, r.Index, <<>>, 0)>>
    \o (IF IncrementWraps(r) THEN <<Call("OnComplete", p)>> ELSE <<>>)
    \o (IF IncrementWraps(r) /\ r.hook = "reverse" THEN <<Call("Reverse", p)>> ELSE <<>>)

\* The calls AfterUpdate makes on pattern p with fields r at time t.
AfterUpdateLog(p, r, t) ==
    <<Event("markUpdated", p, 0, <<>>, t)>> \o IncrementLog(p, r)

\* The body of NeoPatterns::Update once IsActive() and ShouldUpdate() hold:
\* ActivePattern->Update(), which leaves the buffer f; show();
\* ActivePattern->AfterUpdate();
ApplyUpdate(p, r, f, t) ==
    [buf |-> f,
     pat |-> AfterUpdate(r, t),
     log |-> <<Event("computeFrame", p, r.Index, <<>>, 0)>>
             \o FrameShows(p, r, f)
             \o <<Event("show", p, 0, f, 0)>>
             \o AfterUpdateLog(p, r, t)]

\* The record of the run after one more applied update of pattern p, whose
\* fields were r: counted up to one past the strip's length.
RunAfterUpdate(p, r) ==
    IF run.on /\ run.p = p
    THEN [run EXCEPT !.n = IF run.n > numPixels THEN run.n ELSE run.n + 1,
                     !.done = IF IncrementWraps(r) /\ run.done < 2
                              THEN run.done + 1
                              ELSE run.done]
    ELSE run

\* The record of the run that Start(p) begins.
RunAfterStart(p) ==
    IF run.on
    THEN [on |-> TRUE, p |-> p, n |-> 0, done |-> 0, buf |-> pixels,
          dir |-> pat[p].Direction]
    ELSE run

\* Mutant: the interval is not consulted.
UpdateGateNoInterval == IsActive

UpdateGate == IsActive /\ ShouldUpdate(pat[ActivePattern], now)

Update ==
    /\ Running
    /\ IF UpdateGate
       THEN \/ \E f \in Frames(pat[ActivePattern], pixels) :
                 LET u == ApplyUpdate(ActivePattern, pat[ActivePattern], f, now)
                 IN  /\ pixels' = u.buf
                     /\ pat' = [pat EXCEPT ![ActivePattern] = u.pat]
                     /\ log' = <<Call("Update", ActivePattern)>> \o u.log
                     /\ elapsed' = [elapsed EXCEPT ![ActivePattern] = 0]
                     /\ run' = RunAfterUpdate(ActivePattern, pat[ActivePattern])
                     /\ UNCHANGED <<now, numPixels, ActivePattern>>
            \/ /\ FadeDividesByZero(pat[ActivePattern])
               /\ log' = <<Call("Update", ActivePattern),
                           Event("computeFrame", ActivePattern,
                                 pat[ActivePattern].Index, <<>>, 0),
                           Call("trap", ActivePattern)>>
               /\ UNCHANGED <<now, numPixels, pixels, ActivePattern, pat, elapsed, run>>
       ELSE /\ log' = <<Call("Update", ActivePattern)>>
            /\ UNCHANGED <<now, numPixels, pixels, ActivePattern, pat, elapsed, run>>

\* Mutant: Start resets the pattern that was running, not the new one.
StartResetsPrevious(p) ==
    /\ Running
    /\ ActivePattern' = p
    /\ pat' = IF IsActive
              THEN [pat EXCEPT ![ActivePattern] = Reset(pat[ActivePattern])]
              ELSE [pat EXCEPT ![p] = Reset(pat[p])]
    /\ log' = <<Call("Start", p)>>
    /\ elapsed' = [elapsed EXCEPT ![p] = -1]
    /\ run' = RunAfterStart(p)
    /\ UNCHANGED <<now, numPixels, pixels>>

Start(p) ==
    /\ Running
    /\ ActivePattern' = p
    /\ pat' = [pat EXCEPT ![p] = Reset(pat[p])]
    /\ log' = <<Call("Start", p)>>
    /\ elapsed' = [elapsed EXCEPT ![p] = -1]
    /\ run' = RunAfterStart(p)
    /\ UNCHANGED <<now, numPixels, pixels>>

\* Mutant: the buffer is transmitted before it is cleared.
StopShowsBeforeClear ==
    /\ Running
    /\ ActivePattern' = NULL
    /\ pixels' = clear(pixels)
    /\ log' = <<Call("Stop", NULL), Event("show", NULL, 0, pixels, 0)>>
    /\ UNCHANGED <<now, numPixels, pat, elapsed, run>>

Stop ==
    /\ Running
    /\ ActivePattern' = NULL
    /\ pixels' = clear(pixels)
    /\ log' = <<Call("Stop", NULL), Event("show", NULL, 0, clear(pixels), 0)>>
    /\ UNCHANGED <<now, numPixels, pat, elapsed, run>>

\* The host program calling the pattern's public methods directly.
ResetCall(p) ==
    /\ Running
    /\ pat' = [pat EXCEPT ![p] = Reset(pat[p])]
    /\ log' = <<Call("Reset", p)>>
    /\ elapsed' = [elapsed EXCEPT ![p] = -1]
    /\ UNCHANGED <<now, numPixels, pixels, ActivePattern, run>>

IncrementCall(p) ==
    /\ Running
    /\ pat' = [pat EXCEPT ![p] = Increment(pat[p])]
    /\ log' = <<Call("Increment", p)>> \o IncrementLog(p, pat[p])
    /\ UNCHANGED <<now, numPixels, pixels, ActivePattern, elapsed, run>>

ReverseCall(p) ==
    /\ Running
    /\ pat' = [pat EXCEPT ![p] = Reverse(pat[p])]
    /\ log' = <<Call("Reverse", p)>>
    /\ UNCHANGED <<now, numPixels, pixels, ActivePattern, elapsed, run>>

\* Time passes: millis() counts one millisecond on, modulo its range.
Tick ==
    /\ Running
    /\ now' = (now + 1) % MillisMod
    /\ log' = <<Call("Tick", NULL)>>
    /\ elapsed' = [p \in PatternIds |->
                      IF elapsed[p] < 0 \/ elapsed[p] >= MillisMod
                      THEN elapsed[p]
                      ELSE elapsed[p] + 1]
    /\ UNCHANGED <<numPixels, pixels, ActivePattern, pat, run>>

\* ------------------------------------------------------------ the program
\* After construction: the strip of one of the given lengths has its buffer
\* zeroed, no pattern is active and the pattern objects hold what their
\* constructors stored. objectsOf[n][p] is the set of objects that pattern
\* object p is drawn from on a strip of n pixels; recording says whether the
\* program keeps the record of its runs.
InitProgram(lengths, objectsOf, recording) ==
    /\ now = 0
    /\ numPixels \in lengths
    /\ pixels = [i \in 1..numPixels |-> 0]
    /\ ActivePattern = NULL
    /\ pat \in {f \in [DOMAIN objectsOf[numPixels] ->
                         UNION {objectsOf[numPixels][p] : p \in DOMAIN objectsOf[numPixels]}] :
                  \A p \in DOMAIN f : f[p] \in objectsOf[numPixels][p]}
    /\ log = <<>>
    /\ elapsed = [p \in DOMAIN pat |-> -1]
    /\ run = [on |-> recording, p |-> NULL, n |-> 0, done |-> 0, buf |-> <<>>, dir |-> 0]

\* kindsOf[p] is the set of variants pattern object p is drawn from.
ConstructedOf(kindsOf, n) ==
    [p \in DOMAIN kindsOf |-> UNION {Constructed(n, k) : k \in kindsOf[p]}]

InitOf(kindsOf) ==
    InitProgram(1..MaxPixels, [n \in 1..MaxPixels |-> ConstructedOf(kindsOf, n)], FALSE)

\* A program with one pattern object.
Init == InitOf([p \in {1} |-> {"Fade", "ColorWipe", "Pulsar"}])

\* A program with two pattern objects on one strip.
InitTwo == InitOf([p \in {1, 2} |-> IF p = 1 THEN {"ColorWipe"} ELSE {"Pulsar"}])

Next ==
    \/ Tick
    \/ Update
    \/ Stop
    \/ \E p \in PatternIds : Start(p)
    \/ \E p \in PatternIds : ResetCall(p)
    \/ \E p \in PatternIds : IncrementCall(p)
    \/ \E p \in PatternIds : ReverseCall(p)

Spec == Init /\ [][Next]_vars

\* The host program driving the strip through the controller alone.
NextController ==
    \/ Tick
    \/ Update
    \/ Stop
    \/ \E p \in PatternIds : Start(p)

SpecTwo == InitTwo /\ [][NextController]_vars

\* A program with one pattern object whose OnComplete calls Reverse(),
\* driven through the controller.
InitReversing ==
    InitProgram(1..MaxPixels,
                [n \in 1..MaxPixels |-> [p \in {1} |->
                               {Reversing(r) : r \in Constructed(n, "Fade")
                                                     \cup Constructed(n, "ColorWipe")}]],
                TRUE)

SpecReversing == InitReversing /\ [][NextController]_vars

\* A program with a forward ColorWipe and a Pulsar on one strip, driven
\* through the controller.
InitWipe ==
    InitProgram(1..MaxPixels,
                [n \in 1..MaxPixels |-> [p \in {1, 2} |->
                               IF p = 1
                               THEN {ColorWipe(n, i, ColorOne, FORWARD) : i \in Intervals}
                               ELSE {Pulsar(n, 0, ColorTwo, ColorOne)}]],
                TRUE)

SpecWipe == InitWipe /\ [][NextController]_vars

\* A program with one Scanner, driven through the controller.
InitScanner == InitOf([p \in {1} |-> {"Scanner", "ScannerSplit"}])

SpecScanner == InitScanner /\ [][NextController]_vars

\* The smallest step count whose product with a channel of 255 does not fit
\* in 16 bits.
WrapSteps == (Uint16Mod \div 255) + 1

\* Colours with channels at both ends of the 8-bit range.
FadeFrom == Color(255, 9, 0)

FadeTo == Color(0, 4, 255)

\* A program with one Fade between these colours, of a few steps or of about
\* WrapSteps steps, driven through the controller.
InitFade ==
    InitProgram(1..MaxPixels,
                [n \in 1..MaxPixels |-> [p \in {1} |->
                               {Fade(n, i, FadeFrom, FadeTo, t, d) :
                                   i \in Intervals, t \in 1..MaxSteps, d \in Directions}
                               \cup {Fade(n, 0, FadeFrom, FadeTo, t, FORWARD) :
                                        t \in (WrapSteps - 2)..WrapSteps}]],
                FALSE)

SpecFade == InitFade /\ [][NextController]_vars

\* A program with one Fade of 0..MaxSteps steps, or one ColorWipe or Scanner,
\* on a strip that may have no pixels, driven through the controller.
InitZero ==
    InitProgram(0..MaxPixels,
                [n \in 0..MaxPixels |-> [p \in {1} |->
                               {Fade(n, i, ColorOne, ColorTwo, t, d) :
                                   i \in Intervals, t \in 0..MaxSteps, d \in Directions}
                               \cup Constructed(n, "ColorWipe")
                               \cup Constructed(n, "Scanner")]],
                FALSE)

SpecZero == InitZero /\ [][NextController]_vars

\* A program with one RainbowCycle, driven through the controller.
InitRainbow == InitOf([p \in {1} |-> {"RainbowCycle"}])

SpecRainbow == InitRainbow /\ [][NextController]_vars

\* ------------------------------------------------------------- the claims
LogNames == [i \in 1..Len(log) |-> log[i].ev]

LogHas(ev) == \E i \in 1..Len(log) : log[i].ev = ev

LogCount(ev) == Cardinality({i \in 1..Len(log) : log[i].ev = ev})

\* The last operation was a call of NeoPatterns::Update.
UpdateCalled == Len(log) >= 1 /\ log[1].ev = "Update"

\* The last operation was an applied update.
UpdateApplied == UpdateCalled /\ Len(log) > 1

\* The advance() calls of the last operation: positions in log.
Advances == {i \in 1..Len(log) : log[i].ev = "advance"}

\* C1: an applied update makes exactly the calls computeFrame, transmit,
\* markUpdated, advance, once each and in this order (then OnComplete, if
\* the advance wraps); the frame is computed for the index advance starts
\* from, and the buffer transmitted is that frame.
C1_UpdateOrder ==
    UpdateApplied =>
        /\ LogNames \in {<<"Update", "computeFrame", "show", "markUpdated", "advance">>,
                         <<"Update", "computeFrame", "show", "markUpdated", "advance",
                           "OnComplete">>}
        /\ log[2].idx = log[5].idx
        /\ log[3].buf = pixels
        /\ log[4].t = now

\* C2: an advance in the forward direction from index i leaves the index at
\* (i + 1) mod totalSteps, and OnComplete is called by it exactly when
\* i + 1 = totalSteps.
C2_ForwardCycle ==
    \A i \in Advances :
        LET r == pat[log[i].p]
        IN  (r.Direction = FORWARD /\ r.TotalSteps >= 1) =>
                /\ r.Index = (log[i].idx + 1) % r.TotalSteps
                /\ LogCount("OnComplete") = (IF log[i].idx + 1 = r.TotalSteps THEN 1 ELSE 0)

\* A forward advance from the last step, which wraps to 0 with OnComplete.
C2_Witness ==
    \E i \in Advances :
        LET r == pat[log[i].p]
        IN  /\ r.Direction = FORWARD
            /\ r.TotalSteps >= 2
            /\ log[i].idx = r.TotalSteps - 1
            /\ r.Index = 0
            /\ LogHas("OnComplete")

\* C3: an advance in the reverse direction from index 0 leaves the index at
\* totalSteps - 1 and calls OnComplete once.
C3_ReverseFromZero ==
    \A i \in Advances :
        LET r == pat[log[i].p]
        IN  (r.Direction = REVERSE /\ r.TotalSteps >= 1 /\ log[i].idx = 0) =>
                /\ r.Index = r.TotalSteps - 1
                /\ LogCount("OnComplete") = 1

\* C4: in the reverse direction the index steps down through every value:
\* an advance from index i >= 1 leaves the index at i - 1 and does not call
\* OnComplete (the lap ends only on the advance from 0).
C4_ReverseCycle ==
    \A i \in Advances :
        LET r == pat[log[i].p]
        IN  (r.Direction = REVERSE /\ r.TotalSteps >= 2 /\ log[i].idx >= 1) =>
                /\ r.Index = log[i].idx - 1
                /\ ~LogHas("OnComplete")

\* C5: between operations every pattern with totalSteps >= 1 has its index
\* in [0, totalSteps) and its direction in {+1, -1}.
C5_IndexInRange ==
    \A p \in PatternIds :
        pat[p].TotalSteps >= 1 =>
            /\ 0 <= pat[p].Index
            /\ pat[p].Index < pat[p].TotalSteps
            /\ pat[p].Direction \in {FORWARD, REVERSE}

\* A reverse wrap has just put the index on the last step.
C5_Witness ==
    \E i \in Advances :
        LET r == pat[log[i].p]
        IN  /\ r.Direction = REVERSE
            /\ r.TotalSteps >= 2
            /\ r.Index = r.TotalSteps - 1
            /\ LogHas("OnComplete")

\* C6: from the timestamp at which markUpdated recorded LastUpdate on,
\* ShouldUpdate is false at that timestamp and while the elapsed time is at
\* most the interval, and true once it exceeds the interval (elapsed times
\* below the range of the millisecond counter).
C6_ShouldUpdateGate ==
    \A p \in PatternIds :
        (elapsed[p] >= 0 /\ elapsed[p] < MillisMod) =>
            (ShouldUpdate(pat[p], now) <=> elapsed[p] > pat[p].Interval)

\* The gate has opened again after an applied update with a positive interval.
C6_Witness ==
    \E p \in PatternIds :
        /\ pat[p].Interval >= 1
        /\ elapsed[p] = pat[p].Interval + 1
        /\ ShouldUpdate(pat[p], now)

\* C7 as stated: with interval 0 every call of Update on an attached pattern
\* is an applied update.
C7_EveryTickEligible ==
    (UpdateCalled /\ IsActive /\ pat[ActivePattern].Interval = 0) => UpdateApplied

\* C7 as amended: with interval 0 a call of Update on an attached pattern is
\* an applied update exactly when millis() differs from LastUpdate.
C7_IntervalZeroGate ==
    [][(Update /\ IsActive /\ pat[ActivePattern].Interval = 0) =>
          (Len(log') > 1 <=> now # pat[ActivePattern].LastUpdate)]_vars

\* With interval 0: an applied update, and the gate closed at its timestamp.
C7_Witness ==
    /\ UpdateApplied
    /\ IsActive
    /\ pat[ActivePattern].Interval = 0
    /\ pat[ActivePattern].LastUpdate = now
    /\ ~UpdateGate

\* C8: a call of Update with no pattern attached, or with ShouldUpdate false,
\* changes neither the buffer nor the attachment nor any pattern's fields and
\* makes no call (no transmit, no OnComplete).
C8_UpdateNoOp ==
    [][(Update /\ ~(IsActive /\ ShouldUpdate(pat[ActivePattern], now))) =>
          /\ UNCHANGED <<pixels, ActivePattern, pat>>
          /\ log' = <<Call("Update", ActivePattern)>>]_vars

\* Update was called on an attached pattern whose gate is closed.
C8_Witness ==
    /\ UpdateCalled
    /\ ~UpdateApplied
    /\ IsActive
    /\ ~ShouldUpdate(pat[ActivePattern], now)
    /\ \E i \in 1..Len(pixels) : pixels[i] # 0

\* C9: Start(p) attaches p, zeroes p's index and LastUpdate, leaves the
\* buffer and every other pattern's fields as they were and transmits
\* nothing; an Update changes the fields of no pattern but the attached one
\* and makes no call on any other.
C9_StartSwitches ==
    [][/\ \A p \in PatternIds :
             Start(p) =>
                 /\ ActivePattern' = p
                 /\ pat'[p].Index = 0
                 /\ pat'[p].LastUpdate = 0
                 /\ pat'[p].Direction = pat[p].Direction
                 /\ pixels' = pixels
                 /\ log' = <<Call("Start", p)>>
                 /\ \A q \in PatternIds \ {p} : pat'[q] = pat[q]
       /\ Update =>
             \A q \in PatternIds \ {ActivePattern} :
                 /\ pat'[q] = pat[q]
                 /\ \A i \in 2..Len(log') : log'[i].p # q]_vars

\* p has just been started while q, which ran before, keeps its progress.
C9_Witness ==
    \E p \in PatternIds : \E q \in PatternIds \ {p} :
        /\ log = <<Call("Start", p)>>
        /\ ActivePattern = p
        /\ pat[q].Index > 0
        /\ pat[q].LastUpdate > 0
        /\ \E i \in 1..Len(pixels) : pixels[i] # 0

\* C10: Stop detaches the pattern, zeroes every pixel, transmits the zeroed
\* buffer and changes no pattern's fields; while no pattern is attached an
\* Update changes nothing and transmits nothing.
C10_StopClears ==
    [][/\ Stop =>
             /\ ActivePattern' = NULL
             /\ \A p \in PatternIds : ActivePattern' # p
             /\ \A i \in 1..Len(pixels') : pixels'[i] = 0
             /\ Len(pixels') = numPixels
             /\ log' = <<Call("Stop", NULL), Event("show", NULL, 0, pixels', 0)>>
             /\ pat' = pat
       /\ (Update /\ ~IsActive) =>
             /\ UNCHANGED <<pixels, ActivePattern, pat>>
             /\ ~\E i \in 1..Len(log') : log'[i].ev = "show"]_vars

\* Stop has just been called on a pattern that had been running.
C10_Witness ==
    /\ Len(log) = 2
    /\ log[1].ev = "Stop"
    /\ ~IsActive
    /\ \E p \in PatternIds : pat[p].Index > 0 /\ elapsed[p] >= 0

\* C11: Reverse called at an index in [0, totalSteps) negates the direction,
\* puts the index on 0 when the new direction is forward and on
\* totalSteps - 1 when it is reverse, calls nothing (no OnComplete), leaves
\* LastUpdate and the buffer alone, and a second call restores the direction.
C11_ReverseRepositions ==
    [][\A p \in PatternIds :
          (ReverseCall(p) /\ pat[p].TotalSteps >= 1
             /\ pat[p].Index >= 0 /\ pat[p].Index < pat[p].TotalSteps) =>
              /\ pat'[p].Direction = 0 - pat[p].Direction
              /\ pat'[p].Index = (IF pat'[p].Direction = FORWARD
                                  THEN 0
                                  ELSE pat[p].TotalSteps - 1)
              /\ pat'[p].Index >= 0 /\ pat'[p].Index < pat[p].TotalSteps
              /\ pat'[p].LastUpdate = pat[p].LastUpdate
              /\ pixels' = pixels
              /\ log' = <<Call("Reverse", p)>>
              /\ Reverse(pat'[p]).Direction = pat[p].Direction]_vars

\* Reverse has just turned a pattern of two or more steps, which had been
\* updated, to the reverse direction.
C11_Witness ==
    \E p \in PatternIds :
        /\ log = <<Call("Reverse", p)>>
        /\ pat[p].Direction = REVERSE
        /\ pat[p].TotalSteps >= 2
        /\ pat[p].Index = pat[p].TotalSteps - 1
        /\ elapsed[p] >= 0

\* C12: an applied update transmits the buffer exactly once (the variant's
\* Update transmits nothing itself).
C12_OneTransmitPerUpdate == UpdateApplied => LogCount("show") = 1

\* C14: with totalSteps = 1 every advance, in either direction, leaves the
\* index at 0 and calls OnComplete exactly once.
C14_SingleStepWraps ==
    \A i \in Advances :
        LET r == pat[log[i].p]
        IN  r.TotalSteps = 1 =>
                /\ r.Index = 0
                /\ log[i].idx = 0
                /\ LogCount("OnComplete") = 1

\* An applied update of a one-step pattern running in reverse.
C14_Witness ==
    /\ UpdateApplied
    /\ pat[log[1].p].TotalSteps = 1
    /\ pat[log[1].p].Direction = REVERSE
    /\ LogHas("OnComplete")

\* C20: when the millisecond counter has wrapped since LastUpdate was
\* recorded (millis() < LastUpdate), the time the code computes is the real
\* elapsed time, and ShouldUpdate is true exactly when that exceeds the
\* interval (real elapsed times below the counter's range).
C20_GateAcrossWrap ==
    \A p \in PatternIds :
        (elapsed[p] >= 0 /\ elapsed[p] < MillisMod /\ now < pat[p].LastUpdate) =>
            /\ elapsed[p] = (now + MillisMod) - pat[p].LastUpdate
            /\ ShouldUpdate(pat[p], now) = (elapsed[p] > pat[p].Interval)

\* The counter has wrapped since the last applied update and the gate is
\* open again.
C20_Witness ==
    \E p \in PatternIds :
        /\ elapsed[p] >= 0
        /\ elapsed[p] < MillisMod
        /\ now < pat[p].LastUpdate
        /\ pat[p].Interval >= 1
        /\ ShouldUpdate(pat[p], now)

\* C19: a pattern of two or more steps whose OnComplete calls Reverse(),
\* started in the forward direction, is rendered at 0, 1, ..., T-1, then at
\* T-1, ..., 1, and so on: an advance that does not complete a lap moves the
\* index one step in the direction and stays inside (0, T); the advance from
\* T-1 going forward and the advance from 1 going in reverse complete a lap,
\* flip the direction and leave the index at T-1 (now reverse) or 0 (now
\* forward).
C19_BounceCycle ==
    \A i \in Advances :
        LET p == log[i].p
            r == pat[p]
            i0 == log[i].idx
        IN  (UpdateApplied /\ run.p = p /\ run.dir = FORWARD
               /\ r.hook = "reverse" /\ r.TotalSteps >= 2) =>
                /\ 0 <= r.Index /\ r.Index < r.TotalSteps
                /\ IF LogHas("OnComplete")
                   THEN /\ LogCount("OnComplete") = 1
                        /\ LogCount("Reverse") = 1
                        /\ \/ r.Direction = REVERSE /\ i0 = r.TotalSteps - 1
                                /\ r.Index = r.TotalSteps - 1
                           \/ r.Direction = FORWARD /\ i0 = 1 /\ r.Index = 0
                   ELSE /\ r.Index = i0 + r.Direction
                        /\ ~(r.Direction = FORWARD /\ i0 = r.TotalSteps - 1)
                        /\ ~(r.Direction = REVERSE /\ i0 <= 1)

\* The reverse lap of a three-step pattern started forward has just ended:
\* the advance from index 1 flipped the direction back to forward at index 0.
C19_Witness ==
    /\ UpdateApplied
    /\ run.p = log[1].p
    /\ run.dir = FORWARD
    /\ run.n > numPixels
    /\ pat[log[1].p].hook = "reverse"
    /\ pat[log[1].p].TotalSteps >= 3
    /\ pat[log[1].p].Direction = FORWARD
    /\ pat[log[1].p].Index = 0
    /\ LogHas("Reverse")
    /\ \E i \in Advances : log[i].idx = 1

\* C15: while a forward ColorWipe started on a strip of N pixels is running,
\* after k applied updates, 1 <= k <= N, pixels 0..k-1 have its colour and
\* pixels k..N-1 have the value they had when it was started; OnComplete has
\* been called once after the N-th update and not before.
C15_WipeFills ==
    \A p \in PatternIds :
        (IsActivePattern(p) /\ run.p = p /\ pat[p].kind = "ColorWipe"
           /\ pat[p].Direction = FORWARD /\ run.n >= 1 /\ run.n <= numPixels) =>
            /\ \A i \in 0..(numPixels - 1) :
                   getPixelColor(pixels, i) = (IF i < run.n
                                               THEN pat[p].Color1
                                               ELSE getPixelColor(run.buf, i))
            /\ run.done = (IF run.n = numPixels THEN 1 ELSE 0)
            /\ (run.n = numPixels) => (pixels = ColorSet(pixels, pat[p].Color1))

\* A ColorWipe started over a buffer some Pulsar had painted has had as many
\* applied updates as the strip of two or more pixels is long.
C15_Witness ==
    \E p \in PatternIds :
        /\ IsActivePattern(p)
        /\ run.p = p
        /\ pat[p].kind = "ColorWipe"
        /\ numPixels >= 2
        /\ run.n = numPixels
        /\ run.done = 1
        /\ run.buf = ColorSet(pixels, ColorTwo)
        /\ pixels = ColorSet(pixels, pat[p].Color1)
        /\ UpdateApplied

\* C18: every applied update of a non-split Scanner on N pixels sets at
\* least one pixel i in [0, N) to Color1, the pixels with i = Index or
\* i = TotalSteps - Index, and sets every other pixel to DimColor of the
\* value it held before.
C18_ScannerHighlight ==
    [][(Update /\ UpdateGate /\ pat[ActivePattern].kind = "Scanner") =>
          LET r == pat[ActivePattern]
              lit == {i \in 0..(numPixels - 1) :
                        i = r.Index \/ i = r.TotalSteps - r.Index}
          IN  /\ lit # {}
              /\ \A i \in 0..(numPixels - 1) :
                     getPixelColor(pixels', i) = (IF i \in lit
                                                  THEN r.Color1
                                                  ELSE DimColor(getPixelColor(pixels, i)))]_vars

\* The colour RainbowCycle has just painted pixel 0 with is Wheel(Index):
\* the last operation was an applied update of a RainbowCycle at index idx.
RainbowFrameAt(idx) ==
    /\ UpdateApplied
    /\ pat[log[1].p].kind = "RainbowCycle"
    /\ log[2].idx = idx

\* C17 as stated: Wheel(0) is Color(0, 0, 255), and Wheel(85) and Wheel(170)
\* have one channel at 255 and the other two at 0.
C17_WheelZeroIsBlue ==
    /\ RainbowFrameAt(0) => getPixelColor(pixels, 0) = Color(0, 0, 255)
    /\ (RainbowFrameAt(85) \/ RainbowFrameAt(170)) =>
           getPixelColor(pixels, 0) \in {Color(255, 0, 0), Color(0, 255, 0), Color(0, 0, 255)}

\* C17, amended: Wheel(0) is Color(255, 0, 0), Wheel(85) is Color(0, 255, 0)
\* and Wheel(170) is Color(0, 0, 255).
C17_WheelBoundaries ==
    /\ RainbowFrameAt(0) => getPixelColor(pixels, 0) = Color(255, 0, 0)
    /\ RainbowFrameAt(85) => getPixelColor(pixels, 0) = Color(0, 255, 0)
    /\ RainbowFrameAt(170) => getPixelColor(pixels, 0) = Color(0, 0, 255)

\* A RainbowCycle has just rendered its frame for index 170.
C17_Witness == RainbowFrameAt(170) /\ getPixelColor(pixels, 0) = Color(0, 0, 255)

\* The last operation was an applied update of a Fade at index idx.
FadeFrameAt(idx) ==
    /\ UpdateApplied
    /\ pat[log[1].p].kind = "Fade"
    /\ log[2].idx = idx

\* The colour midway between two colours, channel by channel, rounded down.
Midpoint(color1, color2) ==
    Color((Red(color1) + Red(color2)) \div 2,
          (Green(color1) + Green(color2)) \div 2,
          (Blue(color1) + Blue(color2)) \div 2)

C13_NoZeroStepRun ==
    \A i \in 1..Len(log) :
        log[i].ev = "computeFrame" =>
            /\ pat[log[i].p].TotalSteps # 0
            /\ ~FadeDividesByZero(pat[log[i].p])
====
